---- MODULE Spec2Model ----
(***************************************************************************)
(* A model of the authenticated dashboard front-end: the route-gating      *)
(* middleware with the browser navigation that runs through it, and the    *)
(* three forms (LoginForm, ProfileForm, PasswordForm) with the identity    *)
(* provider's SDK calls they await.                                        *)
(*                                                                         *)
(* JavaScript values are represented as follows.  An optional object       *)
(* (T | undefined) is a sequence of length at most one: << >> is           *)
(* undefined/null, <<v>> is the object v.  A nullable string is a string,  *)
(* null being the reserved string Null.  A URL is represented by its       *)
(* pathname: every URL the code builds is new URL(path, request.url) with  *)
(* an absolute path, which keeps the origin of the request.                *)
(***************************************************************************)
EXTENDS Naturals, Sequences, FiniteSets, TLC

VARIABLES
    jar,        \* the browser's cookie jar for the site: cookie name -> value
    nav,        \* the navigation in flight (the request the browser is making)
    location,   \* pathname of the page the browser shows
    handled,    \* << >> or <<the last request the middleware ran on, with its response>>
    user,       \* the auth state useAuthState(auth) yields
    loading,    \* form -> the form's `loading` state
    pending,    \* form -> the SDK promises awaited by its handler invocations
    sdkCalls,   \* form -> the SDK calls made by its latest handler invocation
    toasts,     \* form -> the toasts raised by its latest handler invocation
    settled,    \* form -> how the last SDK promise of the form settled
    formData    \* PasswordForm's controlled inputs

vars == <<jar, nav, location, handled, user, loading, pending, sdkCalls,
          toasts, settled, formData>>

navVars  == <<nav, location, handled>>
formVars == <<loading, pending, sdkCalls, toasts, settled, formData>>

-----------------------------------------------------------------------------
(* Bounds of the model *)

\* redirects a browser follows before it gives up on a navigation
MaxHops == 3

-----------------------------------------------------------------------------
(* JavaScript values *)

Null == "<null>"

Undefined == << >>

\* !!v for an optional object: every object is truthy, whatever its fields hold
TruthyByValue(opt) == opt # << >> /\ opt[1].value # ""
Truthy(opt) == opt # << >>

\* !s for a nullable string: null and the empty string are falsy
Falsy(s) == s = Null \/ s = ""

\* s starts with the pattern pat, in which "." stands for any one character
PrefixMatch(s, pat) ==
    /\ Len(s) >= Len(pat)
    /\ \A i \in 1..Len(pat) :
          SubSeq(pat, i, i) = "." \/ SubSeq(pat, i, i) = SubSeq(s, i, i)

Remove(seq, i) == SubSeq(seq, 1, i - 1) \o SubSeq(seq, i + 1, Len(seq))

-----------------------------------------------------------------------------
(* Requests and cookies *)

AuthCookie == "auth-token"

CookieNames == {AuthCookie, "theme"}

CookieValues == {"", "a", "b"}

\* every cookie jar: a function from some of the cookie names to values
Jars == UNION {[S -> CookieValues] : S \in SUBSET CookieNames}

Paths == {"/", "/login", "/dashboard", "/login/help", "/api/users", "/favicon.ico"}

Request(pathname, cookies) == [pathname |-> pathname, cookies |-> cookies]

\* request.cookies.get(name): the cookie object, or undefined
CookiesGet(cookies, name) ==
    IF name \in DOMAIN cookies
    THEN <<[name |-> name, value |-> cookies[name]]>>
    ELSE Undefined

\* NextResponse.redirect(new URL(path, request.url)) and NextResponse.next()
Redirect(path) == [kind |-> "redirect", location |-> path]
PassThrough == [kind |-> "next", location |-> ""]

-----------------------------------------------------------------------------
(* The route guard *)

middlewareDroppedNegation(request) ==
    LET isLoginPage == request.pathname = "/login"
        token == CookiesGet(request.cookies, AuthCookie)
    IN  IF ~Truthy(token) /\ isLoginPage THEN Redirect("/login")
        ELSE IF Truthy(token) /\ isLoginPage THEN Redirect("/dashboard")
        ELSE PassThrough

middlewareNoLoginCheck(request) ==
    LET isLoginPage == request.pathname = "/login"
        token == CookiesGet(request.cookies, AuthCookie)
    IN  IF ~Truthy(token) THEN Redirect("/login")
        ELSE IF Truthy(token) /\ isLoginPage THEN Redirect("/dashboard")
        ELSE PassThrough

middlewareKeepsLogin(request) ==
    LET isLoginPage == request.pathname = "/login"
        token == CookiesGet(request.cookies, AuthCookie)
    IN  IF ~Truthy(token) /\ ~isLoginPage THEN Redirect("/login")
        ELSE PassThrough

middleware(request) ==
    LET isLoginPage == request.pathname = "/login"
        token == CookiesGet(request.cookies, AuthCookie)
    IN  IF ~Truthy(token) /\ ~isLoginPage THEN Redirect("/login")
        ELSE IF Truthy(token) /\ isLoginPage THEN Redirect("/dashboard")
        ELSE PassThrough

\* config.matcher: '/((?!api|_next/static|_next/image|favicon.ico).*)'
MatcherExcluded == {"/api", "/_next/static", "/_next/image", "/favicon.ico"}

Matches(pathname) ==
    /\ PrefixMatch(pathname, "/")
    /\ \A pat \in MatcherExcluded : ~PrefixMatch(pathname, pat)

-----------------------------------------------------------------------------
(* Browser navigation *)

NoNav == [active |-> FALSE, origin |-> "", path |-> "", hops |-> 0]

StartNav(origin, path) ==
    [active |-> TRUE, origin |-> origin, path |-> path, hops |-> 0]

\* The user opens a URL of the site.
Visit(p) ==
    /\ ~nav.active
    /\ nav' = StartNav("visit", p)
    /\ UNCHANGED <<jar, location, handled, user>>
    /\ UNCHANGED formVars

\* The server answers the request in flight: the middleware runs when the
\* matcher selects the path, and the browser follows a redirect or shows the page.
Fetch ==
    /\ nav.active
    /\ LET request == Request(nav.path, jar)
           response == IF Matches(nav.path) THEN middleware(request) ELSE PassThrough
       IN  /\ handled' = IF Matches(nav.path)
                         THEN <<[request |-> request, response |-> response]>>
                         ELSE handled
           /\ IF response.kind = "redirect"
              THEN IF nav.hops < MaxHops
                   THEN /\ nav' = [nav EXCEPT !.path = response.location,
                                              !.hops = nav.hops + 1]
                        /\ UNCHANGED location
                   ELSE /\ nav' = [NoNav EXCEPT !.origin = nav.origin]
                        /\ location' = "ERR_TOO_MANY_REDIRECTS"
              ELSE /\ nav' = [NoNav EXCEPT !.origin = nav.origin]
                   /\ location' = nav.path
    /\ UNCHANGED <<jar, user>>
    /\ UNCHANGED formVars

-----------------------------------------------------------------------------
(* The identity provider's SDK, as the forms see it *)

Forms == {"login", "profile", "password"}

\* the codes of the errors the SDK rejects a sign-in with; Null is an error
\* that carries no code
ListedCodes ==
    {"auth/invalid-email", "auth/user-disabled", "auth/user-not-found",
     "auth/wrong-password", "auth/invalid-credential",
     "auth/too-many-requests", "auth/network-request-failed"}

ErrorCodes == ListedCodes \cup {"auth/internal-error", "auth/operation-not-allowed", Null}

\* the codes the account-settings calls are rejected with in the model
SettingsErrorCodes == {"auth/wrong-password", "auth/requires-recent-login"}

\* the SDK calls that return a promise
AsyncCallNames ==
    {"signInWithEmailAndPassword", "updateProfile",
     "reauthenticateWithCredential", "updatePassword"}

AsyncCalls(f) == SelectSeq(sdkCalls[f], LAMBDA c : c \in AsyncCallNames)

NoUser == << >>
Users == {NoUser, <<[email |-> Null]>>, <<[email |-> "user@example.com"]>>}

\* !user?.email
NoEmail(u) == u = NoUser \/ Falsy(u[1].email)

Toast(variant, title, description) ==
    [variant |-> variant, title |-> title, description |-> description]

-----------------------------------------------------------------------------
(* LoginForm *)

getErrorMessageDistinct(code) ==
    CASE code = "auth/invalid-email" -> "Please enter a valid email address"
      [] code = "auth/user-disabled" -> "This account has been disabled"
      [] code = "auth/user-not-found" -> "No account found with this email"
      [] code \in {"auth/wrong-password", "auth/invalid-credential"} ->
             "Invalid email or password combination"
      [] code = "auth/too-many-requests" ->
             "Too many failed attempts. Please try again later"
      [] code = "auth/network-request-failed" ->
             "Network error. Please check your connection"
      [] OTHER -> "An error occurred while signing in. Please try again"

getErrorMessage(code) ==
    CASE code = "auth/invalid-email" -> "Please enter a valid email address"
      [] code = "auth/user-disabled" -> "This account has been disabled"
      [] code \in {"auth/user-not-found", "auth/wrong-password",
                   "auth/invalid-credential"} ->
             "Invalid email or password combination"
      [] code = "auth/too-many-requests" ->
             "Too many failed attempts. Please try again later"
      [] code = "auth/network-request-failed" ->
             "Network error. Please check your connection"
      [] OTHER -> "An error occurred while signing in. Please try again"

\* <Button type="submit" disabled={loading}>: a disabled submit button blocks
\* the form's submit event
SubmitAlwaysEnabled(f) == FALSE
SubmitDisabled(f) == loading[f]

\* handleEmailLogin, up to its await
LoginSubmit ==
    /\ ~SubmitDisabled("login")
    /\ loading' = [loading EXCEPT !["login"] = TRUE]
    /\ sdkCalls' = [sdkCalls EXCEPT !["login"] = <<"signInWithEmailAndPassword">>]
    /\ pending' = [pending EXCEPT !["login"] = Append(@, "signInWithEmailAndPassword")]
    /\ toasts' = [toasts EXCEPT !["login"] = << >>]
    /\ UNCHANGED <<jar, user, settled, formData>>
    /\ UNCHANGED navVars

\* handleEmailLogin, from the await on, signInWithEmailAndPassword fulfilled:
\* the SDK has signed the user in; router.push('/dashboard'); finally
LoginFulfilled(i) ==
    /\ i \in 1..Len(pending["login"])
    /\ pending' = [pending EXCEPT !["login"] = Remove(@, i)]
    /\ settled' = [settled EXCEPT !["login"] = "ok"]
    /\ user' = <<[email |-> "user@example.com"]>>
    /\ nav' = StartNav("push", "/dashboard")
    /\ loading' = [loading EXCEPT !["login"] = FALSE]
    /\ UNCHANGED <<jar, location, handled, sdkCalls, toasts, formData>>

\* handleEmailLogin, from the await on, signInWithEmailAndPassword rejected
\* with an error of the given code: catch, finally
LoginRejected(i, code) ==
    /\ i \in 1..Len(pending["login"])
    /\ pending' = [pending EXCEPT !["login"] = Remove(@, i)]
    /\ settled' = [settled EXCEPT !["login"] = code]
    /\ toasts' = [toasts EXCEPT !["login"] =
                     Append(@, Toast("destructive", "Login Failed", getErrorMessage(code)))]
    /\ loading' = [loading EXCEPT !["login"] = FALSE]
    /\ UNCHANGED <<jar, user, sdkCalls, formData>>
    /\ UNCHANGED navVars

-----------------------------------------------------------------------------
(* ProfileForm *)

\* handleSubmit, up to its await
ProfileSubmit ==
    /\ ~SubmitDisabled("profile")
    /\ IF user = NoUser
       THEN /\ sdkCalls' = [sdkCalls EXCEPT !["profile"] = << >>]
            /\ UNCHANGED <<loading, pending>>
       ELSE /\ loading' = [loading EXCEPT !["profile"] = TRUE]
            /\ sdkCalls' = [sdkCalls EXCEPT !["profile"] = <<"updateProfile">>]
            /\ pending' = [pending EXCEPT !["profile"] = Append(@, "updateProfile")]
    /\ toasts' = [toasts EXCEPT !["profile"] = << >>]
    /\ UNCHANGED <<jar, user, settled, formData>>
    /\ UNCHANGED navVars

\* handleSubmit, from the await on: try or catch, then finally
ProfileSettled(i, outcome) ==
    /\ i \in 1..Len(pending["profile"])
    /\ pending' = [pending EXCEPT !["profile"] = Remove(@, i)]
    /\ settled' = [settled EXCEPT !["profile"] = outcome]
    /\ toasts' = [toasts EXCEPT !["profile"] = Append(@,
          IF outcome = "ok"
          THEN Toast("default", "Profile Updated",
                     "Your profile information has been updated successfully.")
          ELSE Toast("destructive", "Update Failed",
                     "Failed to update profile. Please try again."))]
    /\ loading' = [loading EXCEPT !["profile"] = FALSE]
    /\ UNCHANGED <<jar, user, sdkCalls, formData>>
    /\ UNCHANGED navVars

-----------------------------------------------------------------------------
(* PasswordForm *)

\* if (formData.newPassword.length < 6)
MinPasswordLength == 6

Passwords == {"", "12345", "123456"}

CurrentPasswords == {"", "old-pw"}

EmptyFormData == [currentPassword |-> "", newPassword |-> "", confirmPassword |-> ""]

MismatchToast ==
    Toast("destructive", "Password Mismatch",
          "New password and confirm password do not match.")

InvalidToast ==
    Toast("destructive", "Invalid Password",
          "Password must be at least 6 characters long.")

\* The checks handleSubmit makes before it sets loading: the toasts of the
\* check that rejects the submission, or "accept"
ValidateLengthFirst(u, data) ==
    IF NoEmail(u) THEN [verdict |-> "reject", toasts |-> << >>]
    ELSE IF Len(data.newPassword) < MinPasswordLength
    THEN [verdict |-> "reject", toasts |-> <<InvalidToast>>]
    ELSE IF data.newPassword # data.confirmPassword
    THEN [verdict |-> "reject", toasts |-> <<MismatchToast>>]
    ELSE [verdict |-> "accept", toasts |-> << >>]

Validate(u, data) ==
    IF NoEmail(u) THEN [verdict |-> "reject", toasts |-> << >>]
    ELSE IF data.newPassword # data.confirmPassword
    THEN [verdict |-> "reject", toasts |-> <<MismatchToast>>]
    ELSE IF Len(data.newPassword) < MinPasswordLength
    THEN [verdict |-> "reject", toasts |-> <<InvalidToast>>]
    ELSE [verdict |-> "accept", toasts |-> << >>]

\* onChange of one of the three inputs
PasswordChange(field, value) ==
    /\ formData' = [formData EXCEPT ![field] = value]
    /\ UNCHANGED <<jar, user, loading, pending, sdkCalls, toasts, settled>>
    /\ UNCHANGED navVars

PasswordSubmitNoReauth ==
    /\ ~SubmitDisabled("password")
    /\ LET v == Validate(user, formData)
       IN  IF v.verdict = "reject"
           THEN /\ toasts' = [toasts EXCEPT !["password"] = v.toasts]
                /\ sdkCalls' = [sdkCalls EXCEPT !["password"] = << >>]
                /\ UNCHANGED <<loading, pending>>
           ELSE /\ loading' = [loading EXCEPT !["password"] = TRUE]
                /\ sdkCalls' = [sdkCalls EXCEPT !["password"] = <<"updatePassword">>]
                /\ pending' = [pending EXCEPT !["password"] = Append(@, "updatePassword")]
                /\ toasts' = [toasts EXCEPT !["password"] = << >>]
    /\ UNCHANGED <<jar, user, settled, formData>>
    /\ UNCHANGED navVars

\* handleSubmit, up to its first await
PasswordSubmit ==
    /\ ~SubmitDisabled("password")
    /\ LET v == Validate(user, formData)
       IN  IF v.verdict = "reject"
           THEN /\ toasts' = [toasts EXCEPT !["password"] = v.toasts]
                /\ sdkCalls' = [sdkCalls EXCEPT !["password"] = << >>]
                /\ UNCHANGED <<loading, pending>>
           ELSE /\ loading' = [loading EXCEPT !["password"] = TRUE]
                /\ sdkCalls' = [sdkCalls EXCEPT !["password"] =
                      <<"EmailAuthProvider.credential", "reauthenticateWithCredential">>]
                /\ pending' = [pending EXCEPT !["password"] =
                      Append(@, "reauthenticateWithCredential")]
                /\ toasts' = [toasts EXCEPT !["password"] = << >>]
    /\ UNCHANGED <<jar, user, settled, formData>>
    /\ UNCHANGED navVars

\* the catch and finally blocks of handleSubmit
PasswordFailed(i, code) ==
    /\ pending' = [pending EXCEPT !["password"] = Remove(@, i)]
    /\ settled' = [settled EXCEPT !["password"] = code]
    /\ toasts' = [toasts EXCEPT !["password"] = Append(@,
          Toast("destructive", "Update Failed",
                IF code = "auth/wrong-password"
                THEN "Current password is incorrect."
                ELSE "Failed to update password. Please try again."))]
    /\ loading' = [loading EXCEPT !["password"] = FALSE]
    /\ UNCHANGED <<jar, user, sdkCalls, formData>>
    /\ UNCHANGED navVars

\* handleSubmit, from its first await on: reauthenticateWithCredential
\* settles, and on success updatePassword is called and awaited
PasswordReauthSettled(i, outcome) ==
    /\ i \in 1..Len(pending["password"])
    /\ pending["password"][i] = "reauthenticateWithCredential"
    /\ IF outcome = "ok"
       THEN /\ sdkCalls' = [sdkCalls EXCEPT !["password"] = Append(@, "updatePassword")]
            /\ pending' = [pending EXCEPT !["password"][i] = "updatePassword"]
            /\ settled' = [settled EXCEPT !["password"] = "ok"]
            /\ UNCHANGED <<jar, user, loading, toasts, formData>>
            /\ UNCHANGED navVars
       ELSE PasswordFailed(i, outcome)

\* handleSubmit, from its second await on: updatePassword settles
PasswordUpdateSettled(i, outcome) ==
    /\ i \in 1..Len(pending["password"])
    /\ pending["password"][i] = "updatePassword"
    /\ IF outcome = "ok"
       THEN /\ pending' = [pending EXCEPT !["password"] = Remove(@, i)]
            /\ settled' = [settled EXCEPT !["password"] = "ok"]
            /\ formData' = EmptyFormData
            /\ toasts' = [toasts EXCEPT !["password"] = Append(@,
                  Toast("default", "Password Updated",
                        "Your password has been updated successfully."))]
            /\ loading' = [loading EXCEPT !["password"] = FALSE]
            /\ UNCHANGED <<jar, user, sdkCalls>>
            /\ UNCHANGED navVars
       ELSE PasswordFailed(i, outcome)

-----------------------------------------------------------------------------
(* Specifications *)

\* The state after construction: no page loaded, every form idle with
\* useState's initial values; the cookie jar and the signed-in user are
\* whatever the browser holds.  No code of the repository writes a cookie,
\* so the jar keeps its initial value.
Init ==
    /\ jar \in Jars
    /\ nav = NoNav
    /\ location = "about:blank"
    /\ handled = << >>
    /\ user \in Users
    /\ loading = [f \in Forms |-> FALSE]
    /\ pending = [f \in Forms |-> << >>]
    /\ sdkCalls = [f \in Forms |-> << >>]
    /\ toasts = [f \in Forms |-> << >>]
    /\ settled = [f \in Forms |-> "none"]
    /\ formData = EmptyFormData

LoginSettled ==
    \E i \in 1..Len(pending["login"]) :
        \/ LoginFulfilled(i)
        \/ \E code \in ErrorCodes : LoginRejected(i, code)

\* Home is the page that renders LoginForm.  The sources do not name its
\* route: '/' by the component's name, '/login' by the guard, which sends
\* every visitor without the cookie there.  The form can be submitted while
\* the browser shows either.
LoginRoutes == {"/", "/login"}

LoginPageShown == location \in LoginRoutes

\* The route guard, the navigation through it, and the login form on its page
Next ==
    \/ \E p \in Paths : Visit(p)
    \/ Fetch
    \/ LoginPageShown /\ LoginSubmit
    \/ LoginSettled

Spec == Init /\ [][Next]_vars

\* The three forms, each taken as mounted (the pages that render ProfileForm
\* and PasswordForm are not among the sources); navigation is not run here.
FormsInit ==
    /\ Init
    /\ jar = << >>

FormsNext ==
    \/ LoginSubmit
    \/ LoginSettled
    \/ ProfileSubmit
    \/ \E i \in 1..Len(pending["profile"]) :
          \E outcome \in {"ok"} \cup SettingsErrorCodes : ProfileSettled(i, outcome)
    \/ \E value \in CurrentPasswords : PasswordChange("currentPassword", value)
    \/ \E field \in {"newPassword", "confirmPassword"} :
          \E value \in Passwords : PasswordChange(field, value)
    \/ PasswordSubmit
    \/ \E i \in 1..Len(pending["password"]) :
          \E outcome \in {"ok"} \cup SettingsErrorCodes :
              \/ PasswordReauthSettled(i, outcome)
              \/ PasswordUpdateSettled(i, outcome)

FormsSpec == FormsInit /\ [][FormsNext]_vars

-----------------------------------------------------------------------------
(* Properties of the route guard *)

HasAuthCookie(cookies) == AuthCookie \in DOMAIN cookies

\* C1: a request the middleware handles whose path is not exactly '/login'
\* and which carries no 'auth-token' cookie is answered with a redirect to
\* '/login'; so a browser without the cookie is never shown a guarded page
\* other than '/login'.
C1_UnauthenticatedRedirected ==
    /\ \A h \in {handled[k] : k \in DOMAIN handled} :
          (h.request.pathname # "/login" /\ ~HasAuthCookie(h.request.cookies))
              => h.response = Redirect("/login")
    /\ (~HasAuthCookie(jar) /\ Matches(location)) => location = "/login"

C1_Witness ==
    /\ handled # << >>
    /\ handled[1].request.pathname = "/dashboard"
    /\ ~HasAuthCookie(handled[1].request.cookies)
    /\ handled[1].response = Redirect("/login")
    /\ location = "/login"

\* C2: a request to '/login' that carries an 'auth-token' cookie is answered
\* with a redirect to '/dashboard'; a browser holding the cookie is never
\* shown '/login'.
C2_AuthenticatedLeavesLogin ==
    /\ \A h \in {handled[k] : k \in DOMAIN handled} :
          (h.request.pathname = "/login" /\ HasAuthCookie(h.request.cookies))
              => h.response = Redirect("/dashboard")
    /\ HasAuthCookie(jar) => location # "/login"

C2_Witness ==
    /\ handled # << >>
    /\ handled[1].request.pathname = "/login"
    /\ HasAuthCookie(handled[1].request.cookies)
    /\ handled[1].response = Redirect("/dashboard")
    /\ nav.active
    /\ nav.path = "/dashboard"
    /\ nav.hops = 1

\* C3: the middleware's outcome is a function of two facts only, whether an
\* 'auth-token' cookie is present and whether the path equals '/login': the
\* response to the request it handled is the response to every request that
\* agrees with it on those two facts, whatever the value of the cookie (the
\* empty value included) and whatever other cookies are sent.
C3_OutcomeOfTwoFacts ==
    \A h \in {handled[k] : k \in DOMAIN handled} :
        \A p \in Paths, c \in Jars :
            ( /\ (p = "/login") = (h.request.pathname = "/login")
              /\ HasAuthCookie(c) = HasAuthCookie(h.request.cookies) )
                => middleware(Request(p, c)) = h.response

C3_Witness ==
    /\ handled # << >>
    /\ HasAuthCookie(handled[1].request.cookies)
    /\ handled[1].request.cookies[AuthCookie] = ""
    /\ handled[1].request.pathname = "/login"
    /\ handled[1].response = Redirect("/dashboard")

\* C7: following the middleware's redirects with the cookie jar fixed reaches
\* a pass-through response after at most one redirect: a navigation is
\* redirected at most once, the request made after a redirect passes, and
\* the browser never gives up on a redirect loop.
C7_NoRedirectLoop ==
    /\ nav.hops <= 1
    /\ (nav.active /\ nav.hops = 1) =>
          (Matches(nav.path) => middleware(Request(nav.path, jar)) = PassThrough)
    /\ location # "ERR_TOO_MANY_REDIRECTS"

C7_Witness ==
    /\ nav.active
    /\ nav.hops = 1
    /\ nav.path = "/dashboard"
    /\ HasAuthCookie(jar)

\* C6: a successful sign-in through LoginForm followed by its
\* router.push('/dashboard') ends on '/dashboard'.
C6_PushEndsOnDashboard ==
    (~nav.active /\ nav.origin = "push") => location = "/dashboard"

-----------------------------------------------------------------------------
(* Properties of the forms *)

GenericLoginMessage == "An error occurred while signing in. Please try again"

InvalidCredentialsMessage == "Invalid email or password combination"

LoginMessages ==
    {"Please enter a valid email address", "This account has been disabled",
     InvalidCredentialsMessage, "Too many failed attempts. Please try again later",
     "Network error. Please check your connection", GenericLoginMessage}

\* C5: getErrorMessage is total over error codes and yields one fixed message
\* for each; 'auth/user-not-found', 'auth/wrong-password' and
\* 'auth/invalid-credential' yield the same 'Invalid email or password
\* combination', and every code outside the seven listed ones yields the
\* generic message.  Stated of the toast LoginForm raises for the code its
\* sign-in was rejected with.
C5_ErrorMessages ==
    toasts["login"] # << >> =>
        LET code == settled["login"]
            t == toasts["login"][1]
        IN  /\ Len(toasts["login"]) = 1
            /\ code \in ErrorCodes
            /\ t.title = "Login Failed"
            /\ t.description \in LoginMessages
            /\ code \in {"auth/user-not-found", "auth/wrong-password",
                         "auth/invalid-credential"}
                  => t.description = InvalidCredentialsMessage
            /\ code \notin ListedCodes => t.description = GenericLoginMessage
            /\ (code \in ListedCodes /\ t.description = InvalidCredentialsMessage)
                  => code \in {"auth/user-not-found", "auth/wrong-password",
                               "auth/invalid-credential"}
            /\ code \in ListedCodes => t.description # GenericLoginMessage

C5_Witness ==
    /\ settled["login"] = "auth/user-not-found"
    /\ toasts["login"] # << >>
    /\ toasts["login"][1].description = InvalidCredentialsMessage

\* C4 as stated: every form submission makes at most one asynchronous SDK call.
C4_SingleCallEveryForm ==
    \A f \in Forms : Len(AsyncCalls(f)) <= 1

IsPrefix(s, t) == Len(s) <= Len(t) /\ s = SubSeq(t, 1, Len(s))

\* C4 (amended): a submission of LoginForm or ProfileForm makes at most one
\* asynchronous SDK call; a submission of PasswordForm makes at most two, one
\* after the other: reauthenticateWithCredential, then updatePassword, the
\* second only once the first has been fulfilled.
C4_CallsPerSubmission ==
    /\ IsPrefix(AsyncCalls("login"), <<"signInWithEmailAndPassword">>)
    /\ IsPrefix(AsyncCalls("profile"), <<"updateProfile">>)
    /\ IsPrefix(AsyncCalls("password"),
                <<"reauthenticateWithCredential", "updatePassword">>)
    /\ \A f \in Forms : \A i \in 1..Len(pending[f]) :
          pending[f][i] = AsyncCalls(f)[Len(AsyncCalls(f))]

C4_Witness ==
    /\ AsyncCalls("password") = <<"reauthenticateWithCredential", "updatePassword">>
    /\ pending["password"] = <<"updatePassword">>
    /\ AsyncCalls("login") = <<"signInWithEmailAndPassword">>
    /\ AsyncCalls("profile") = <<"updateProfile">>

\* C8: in each form, loading is true exactly while an SDK call of a
\* submission is pending, and at most one submission is in flight; so a
\* submission starts only while loading is false, and one whose SDK call
\* settles, with success or with an error, leaves loading false.
C8_LoadingWhilePending ==
    \A f \in Forms :
        /\ loading[f] <=> pending[f] # << >>
        /\ Len(pending[f]) <= 1

C8_Witness ==
    /\ settled["password"] = "auth/wrong-password"
    /\ ~loading["password"]
    /\ settled["login"] = "ok"
    /\ ~loading["login"]
    /\ loading["profile"]
    /\ settled["profile"] = "auth/requires-recent-login"

\* C9: PasswordForm rejects a submission locally, with no SDK call and with
\* loading and the form fields unchanged, silently when the user has no
\* email, with the toast 'Password Mismatch' when newPassword differs from
\* confirmPassword, and with the toast 'Invalid Password' when newPassword
\* is shorter than 6 characters; the checks run in that order, so a
\* submission both mismatched and too short reports only the mismatch.
C9_LocalRejection ==
    [][ PasswordSubmit =>
          LET noEmail == user = NoUser \/ user[1].email \in {Null, ""}
              mismatch == formData.newPassword # formData.confirmPassword
              short == Len(formData.newPassword) < 6
              titles == [k \in DOMAIN toasts'["password"] |-> toasts'["password"][k].title]
          IN  (noEmail \/ mismatch \/ short) =>
                /\ sdkCalls'["password"] = << >>
                /\ pending' = pending
                /\ loading' = loading
                /\ formData' = formData
                /\ titles = IF noEmail THEN << >>
                            ELSE IF mismatch THEN <<"Password Mismatch">>
                            ELSE <<"Invalid Password">>
      ]_vars

C9_Witness ==
    /\ user # NoUser
    /\ user[1].email = "user@example.com"
    /\ formData.newPassword = "12345"
    /\ formData.confirmPassword = "123456"
    /\ toasts["password"] = <<MismatchToast>>
    /\ sdkCalls["password"] = << >>
    /\ ~loading["password"]

====
